---- MODULE Spec2Model ----
(***************************************************************************)
(* Protection-package scoring (compute_best_package), the tracking upsert  *)
(* (POST /track-protection-plan) and the best-package endpoint             *)
(* (GET /protection-package/best/{user_id}) of src/main.py.                *)
(*                                                                         *)
(* Python floats are modelled as exact rationals [n, d] in lowest terms    *)
(* with d > 0: the weights 1.5, 1.2, 0.5, 0.3, 0.2 are 3/2, 6/5, 1/2,      *)
(* 3/10, 1/5.  Rounding error of IEEE doubles is outside the model.        *)
(***************************************************************************)
EXTENDS Integers, Sequences, FiniteSets, TLC

\* ------------------------------------------------------------------ bounds
\* Largest value of a counter in the enumerated inputs of the scoring function.
MaxCount == 1
\* Longest input list handed to compute_best_package.
MaxLen == 3

\* Users that POST /users creates in a run.
MaxUsers == 2
\* Rows the table track_protection_plans holds at most in a run.
MaxTracks == 3
\* Largest reading of the clock behind datetime.utcnow().
MaxClock == 1

VARIABLES
    packages,   \* the argument of the call of compute_best_package under study
    call,       \* "pending" before the call, "done" after it
    ranked,     \* outcome of the call: [raised, value]
    users,      \* table users: the ids of its rows
    tracks,     \* table track_protection_plans: its rows in id order
    clock,      \* what datetime.utcnow() returns now
    response,   \* the answer to the latest HTTP request
    sessions,   \* per worker thread: the request it is serving and what it read
    preferences,        \* table preferences: its rows in id order
    questions,          \* table questions: the set of its rows
    agentic_selectors,  \* table agentic_selectors: its rows in id order
    tasks,      \* the Celery tasks sent so far, each with its execution in flight
    reader      \* the GET /preferences/{id} request in flight

rankVars == <<packages, call, ranked>>
dbVars == <<users, tracks, clock, response, sessions>>
genVars == <<preferences, questions, agentic_selectors, tasks, reader>>
vars == <<packages, call, ranked, users, tracks, clock, response, sessions, genVars>>

\* ------------------------------------------------------- rational numbers
Abs(i) == IF i < 0 THEN -i ELSE i

RECURSIVE GCD(_, _)
GCD(a, b) == IF b = 0 THEN a ELSE GCD(b, a % b)

LCM(a, b) == (a \div GCD(a, b)) * b

\* n/d in lowest terms, d > 0 (the caller guarantees d # 0)
Rat(n, d) ==
    LET g == GCD(Abs(n), Abs(d))
        s == IF d < 0 THEN -1 ELSE 1
    IN  [n |-> s * (n \div g), d |-> s * (d \div g)]

RInt(i) == [n |-> i, d |-> 1]

RAdd(a, b) ==
    LET l == LCM(a.d, b.d)
    IN  Rat(a.n * (l \div a.d) + b.n * (l \div b.d), l)

RSub(a, b) == RAdd(a, [n |-> -b.n, d |-> b.d])

RMul(a, b) ==
    LET x == Rat(a.n, b.d)
        y == Rat(b.n, a.d)
    IN  [n |-> x.n * y.n, d |-> x.d * y.d]

RLt(a, b) ==
    LET l == LCM(a.d, b.d)
    IN  a.n * (l \div a.d) < b.n * (l \div b.d)

RLe(a, b) == ~RLt(b, a)

\* ------------------------------------------------- compute_best_package
\* pkg["timeSpendSelected"] / 10000 with floor division (Python 2 style '//')
time_term_floor(pkg) == RInt(pkg.timeSpendSelected \div 10000)

\* pkg["timeSpendSelected"] / 10000: true division
time_term(pkg) == Rat(pkg.timeSpendSelected, 10000)

engagement(pkg) ==
    RAdd(RAdd(RAdd(RAdd(RMul(RInt(pkg.clickedIncludes), Rat(3, 2)),
                        RMul(RInt(pkg.clickedUnIncludes), RInt(1))),
                   RMul(RInt(pkg.clickedPriceDistribution), RInt(2))),
              RMul(RInt(pkg.clickedDescription), Rat(6, 5))),
         time_term(pkg))

\* the denominator without the +1 smoothing
denominator_unsmoothed(pkg) == pkg.Selected + pkg.Unselected

\* the division of line 1280 and of lines 1282-1283 raises when this is 0
denominator(pkg) == pkg.Selected + pkg.Unselected + 1

\* conversion rate without the +1 smoothing (guarded against 0/0)
conversion_rate_unsmoothed(pkg) ==
    IF pkg.Selected + pkg.Unselected = 0 THEN RInt(0)
    ELSE Rat(pkg.Selected, pkg.Selected + pkg.Unselected)

\* add-one smoothing of numerator and denominator: (s + 1) / (s + u + 2)
conversion_rate_add_one(pkg) == Rat(pkg.Selected + 1, denominator(pkg) + 1)

conversion_rate(pkg) == Rat(pkg.Selected, denominator(pkg))

\* the difference taken without abs()
consistency_signed(pkg) ==
    RSub(RInt(1), Rat(pkg.Selected - pkg.Unselected, denominator(pkg)))

\* the quotient taken with floor division '//'
consistency_floor(pkg) ==
    RSub(RInt(1), RInt(Abs(pkg.Selected - pkg.Unselected) \div denominator(pkg)))

consistency(pkg) ==
    RSub(RInt(1), Rat(Abs(pkg.Selected - pkg.Unselected), denominator(pkg)))

\* weights of conversion rate and consistency exchanged
final_score_swapped(e, c, k) ==
    RAdd(RAdd(RMul(Rat(1, 2), e), RMul(Rat(1, 5), c)), RMul(Rat(3, 10), k))

final_score(e, c, k) ==
    RAdd(RAdd(RMul(Rat(1, 2), e), RMul(Rat(3, 10), c)), RMul(Rat(1, 5), k))

\* an entry built after writing the time in units of 10 s back into the record
result_entry_in_place(pkg) ==
    [protectionPackageId |-> pkg.protectionPackageId,
     final_score         |-> final_score(engagement(pkg), conversion_rate(pkg),
                                         consistency(pkg)),
     engagement          |-> engagement(pkg),
     conversion_rate     |-> conversion_rate(pkg),
     consistency         |-> consistency(pkg),
     package_data        |-> [pkg EXCEPT !.timeSpendSelected = @ \div 10000]]

\* one element of results (lines 1289-1296)
result_entry(pkg) ==
    [protectionPackageId |-> pkg.protectionPackageId,
     final_score         |-> final_score(engagement(pkg), conversion_rate(pkg),
                                         consistency(pkg)),
     engagement          |-> engagement(pkg),
     conversion_rate     |-> conversion_rate(pkg),
     consistency         |-> consistency(pkg),
     package_data        |-> pkg]

\* the loop of lines 1271-1295: results in input order
results(pkgs) == [i \in 1..Len(pkgs) |-> result_entry(pkgs[i])]

\* x placed before the first element whose score is not larger: a descending
\* order that puts a later record in front of an earlier one of equal score
RECURSIVE insert_desc_unstable(_, _)
insert_desc_unstable(x, s) ==
    IF s = <<>> THEN <<x>>
    ELSE IF RLe(Head(s).final_score, x.final_score) THEN <<x>> \o s
    ELSE <<Head(s)>> \o insert_desc_unstable(x, Tail(s))

\* x placed before the first element of s whose score is strictly smaller:
\* elements of equal score that came earlier stay in front of x
RECURSIVE insert_desc(_, _)
insert_desc(x, s) ==
    IF s = <<>> THEN <<x>>
    ELSE IF RLt(Head(s).final_score, x.final_score) THEN <<x>> \o s
    ELSE <<Head(s)>> \o insert_desc(x, Tail(s))

\* ascending order: reverse=True forgotten
RECURSIVE sorted_ascending(_)
sorted_ascending(rs) ==
    IF rs = <<>> THEN <<>>
    ELSE LET rest == sorted_ascending(SubSeq(rs, 1, Len(rs) - 1))
             x    == rs[Len(rs)]
             k    == Cardinality({i \in 1..Len(rest) :
                                     RLe(rest[i].final_score, x.final_score)})
         IN  SubSeq(rest, 1, k) \o <<x>> \o SubSeq(rest, k + 1, Len(rest))

\* sorted(results, key=final_score, reverse=True): stable, descending
RECURSIVE sorted(_)
sorted(rs) ==
    IF rs = <<>> THEN <<>>
    ELSE insert_desc(rs[Len(rs)], sorted(SubSeq(rs, 1, Len(rs) - 1)))

\* a ranking keyed by package id: a later record of an id already seen is dropped
compute_best_package_dedup(pkgs) ==
    LET idx == SelectSeq([i \in 1..Len(pkgs) |-> i],
                         LAMBDA i : ~\E j \in 1..(i - 1) :
                             pkgs[j].protectionPackageId = pkgs[i].protectionPackageId)
    IN  [raised |-> "none",
         value  |-> sorted(results([k \in 1..Len(idx) |-> pkgs[idx[k]]]))]

\* a ranking engine that refuses an empty input
compute_best_package_raising(pkgs) ==
    IF pkgs = <<>> THEN [raised |-> "EmptyInputError", value |-> <<>>]
    ELSE [raised |-> "none", value |-> sorted(results(pkgs))]

compute_best_package(pkgs) ==
    IF \E i \in 1..Len(pkgs) : denominator(pkgs[i]) = 0
    THEN [raised |-> "ZeroDivisionError", value |-> <<>>]
    ELSE [raised |-> "none", value |-> sorted(results(pkgs))]

\* ------------------------------------------------------- HTTP layer
\* Python None (BookingId is Optional[str])
None == "None"

NoBody == [none |-> TRUE]

\* no request answered yet
NoResponse == [op |-> "none", status |-> 0, user_id |-> 0, body |-> NoBody]

CounterFields ==
    {"clickedIncludes", "clickedUnIncludes", "clickedPriceDistribution",
     "clickedDescription", "timeSpendSelected", "Unselected", "Selected"}

\* the schema with ge=0 missing on Selected
valid_without_selected(tracking_data) ==
    \A f \in CounterFields \ {"Selected"} : tracking_data[f] >= 0

\* TrackProtectionPlanCreate: every counter is declared with ge=0
valid(tracking_data) == \A f \in CounterFields : tracking_data[f] >= 0

\* a lookup that also filters on booking_id
existing_tracking_by_booking(tracking_data) ==
    LET hits == {i \in 1..Len(tracks) :
                    /\ tracks[i].protection_package_id = tracking_data.protectionPackageId
                    /\ tracks[i].user_id = tracking_data.UserId
                    /\ tracks[i].booking_id = tracking_data.BookingId}
    IN  IF hits = {} THEN 0 ELSE CHOOSE i \in hits : \A j \in hits : i <= j

\* index of the row .first() returns for (protectionPackageId, UserId); 0 if none
existing_tracking(tracking_data) ==
    LET hits == {i \in 1..Len(tracks) :
                    /\ tracks[i].protection_package_id = tracking_data.protectionPackageId
                    /\ tracks[i].user_id = tracking_data.UserId}
    IN  IF hits = {} THEN 0 ELSE CHOOSE i \in hits : \A j \in hits : i <= j

\* an update that adds the request's counters to the stored ones
updated_tracking_adding(row, tracking_data) ==
    [row EXCEPT !.clicked_includes = @ + tracking_data.clickedIncludes,
                !.clicked_un_includes = @ + tracking_data.clickedUnIncludes,
                !.clicked_price_distribution = @ + tracking_data.clickedPriceDistribution,
                !.clicked_description = @ + tracking_data.clickedDescription,
                !.time_spend_selected = @ + tracking_data.timeSpendSelected,
                !.unselected = @ + tracking_data.Unselected,
                !.selected = @ + tracking_data.Selected,
                !.booking_id = tracking_data.BookingId,
                !.updated_at = clock]

\* lines 1087-1095: the row with every counter and booking_id overwritten
updated_tracking(row, tracking_data) ==
    [row EXCEPT !.clicked_includes = tracking_data.clickedIncludes,
                !.clicked_un_includes = tracking_data.clickedUnIncludes,
                !.clicked_price_distribution = tracking_data.clickedPriceDistribution,
                !.clicked_description = tracking_data.clickedDescription,
                !.time_spend_selected = tracking_data.timeSpendSelected,
                !.unselected = tracking_data.Unselected,
                !.selected = tracking_data.Selected,
                !.booking_id = tracking_data.BookingId,
                !.updated_at = clock]

\* lines 1117-1128 and the column defaults of models.py: the inserted row
new_tracking(tracking_data) ==
    [id |-> Len(tracks) + 1,
     protection_package_id |-> tracking_data.protectionPackageId,
     clicked_includes |-> tracking_data.clickedIncludes,
     clicked_un_includes |-> tracking_data.clickedUnIncludes,
     clicked_price_distribution |-> tracking_data.clickedPriceDistribution,
     clicked_description |-> tracking_data.clickedDescription,
     time_spend_selected |-> tracking_data.timeSpendSelected,
     unselected |-> tracking_data.Unselected,
     selected |-> tracking_data.Selected,
     user_id |-> tracking_data.UserId,
     booking_id |-> tracking_data.BookingId,
     created_at |-> clock,
     updated_at |-> clock]

\* the user check answering as if every id named a user
user_found_always(user_id) == TRUE

\* lines 1071-1072: the query for the user returns a row
user_found(user_id) == user_id \in users

\* POST /track-protection-plan
track_protection_plan(tracking_data) ==
    LET k == existing_tracking(tracking_data)
    IN  IF ~valid(tracking_data)
        THEN /\ response' = [op |-> "track", status |-> 422,
                             user_id |-> tracking_data.UserId, body |-> NoBody]
             /\ UNCHANGED tracks
        ELSE IF ~user_found(tracking_data.UserId)
        THEN /\ response' = [op |-> "track", status |-> 404,
                             user_id |-> tracking_data.UserId, body |-> NoBody]
             /\ UNCHANGED tracks
        ELSE IF k # 0
        THEN /\ tracks' = [tracks EXCEPT ![k] = updated_tracking(tracks[k], tracking_data)]
             /\ response' = [op |-> "track", status |-> 200,
                             user_id |-> tracking_data.UserId, body |-> tracks'[k]]
        ELSE /\ tracks' = Append(tracks, new_tracking(tracking_data))
             /\ response' = [op |-> "track", status |-> 200,
                             user_id |-> tracking_data.UserId,
                             body |-> tracks'[Len(tracks')]]

\* the query without its filter on user_id
user_packages_all(user_id) == tracks

\* lines 1329-1331: the rows of one user, in table order
user_packages(user_id) == SelectSeq(tracks, LAMBDA row : row.user_id = user_id)

\* lines 1340-1351: one row as the dictionary handed to compute_best_package
package_dict(pkg) ==
    [protectionPackageId |-> pkg.protection_package_id,
     clickedIncludes |-> pkg.clicked_includes,
     clickedUnIncludes |-> pkg.clicked_un_includes,
     clickedPriceDistribution |-> pkg.clicked_price_distribution,
     clickedDescription |-> pkg.clicked_description,
     timeSpendSelected |-> pkg.time_spend_selected,
     Selected |-> pkg.selected,
     Unselected |-> pkg.unselected]

packages_data(user_id) ==
    LET pkgs == user_packages(user_id)
    IN  [i \in 1..Len(pkgs) |-> package_dict(pkgs[i])]

\* lines 1364-1372: BestProtectionPackageResponse of one ranking entry
best_response(best) ==
    [protectionPackageId |-> best.protectionPackageId,
     score |-> best.final_score,
     engagement |-> best.engagement,
     conversion_rate |-> best.conversion_rate,
     consistency |-> best.consistency,
     package_data |-> best.package_data]

\* the answer of a handler that reports the last entry of the ranking
get_best_response_last(user_id) ==
    LET best_packages == compute_best_package(packages_data(user_id))
    IN  IF user_packages(user_id) = <<>> \/ best_packages.value = <<>>
        THEN [op |-> "get_best", status |-> 404, user_id |-> user_id, body |-> NoBody]
        ELSE [op |-> "get_best", status |-> 200, user_id |-> user_id,
              body |-> best_response(best_packages.value[Len(best_packages.value)])]

\* the answer of a handler that skips the emptiness checks and answers an
\* empty ranking with an empty body
get_best_response_unchecked(user_id) ==
    LET best_packages == compute_best_package(packages_data(user_id))
    IN  IF best_packages.value = <<>>
        THEN [op |-> "get_best", status |-> 200, user_id |-> user_id, body |-> NoBody]
        ELSE [op |-> "get_best", status |-> 200, user_id |-> user_id,
              body |-> best_response(best_packages.value[1])]

\* GET /protection-package/best/{user_id}: the answer (an exception that
\* escapes the handler is answered 500)
get_best_response(user_id) ==
    LET best_packages == compute_best_package(packages_data(user_id))
    IN  IF user_packages(user_id) = <<>>
        THEN [op |-> "get_best", status |-> 404, user_id |-> user_id, body |-> NoBody]
        ELSE IF best_packages.raised # "none"
        THEN [op |-> "get_best", status |-> 500, user_id |-> user_id, body |-> NoBody]
        ELSE IF best_packages.value = <<>>
        THEN [op |-> "get_best", status |-> 404, user_id |-> user_id, body |-> NoBody]
        ELSE [op |-> "get_best", status |-> 200, user_id |-> user_id,
              body |-> best_response(best_packages.value[1])]

\* ------------------------------------------------ inputs of the pure call
PackageIds == {"1", "2"}

\* schemas.py BestProtectionPackageResponse example (package_data)
ExamplePkg ==
    [protectionPackageId |-> "1", clickedIncludes |-> 5, clickedUnIncludes |-> 2,
     clickedPriceDistribution |-> 3, clickedDescription |-> 4,
     timeSpendSelected |-> 571007, Selected |-> 10, Unselected |-> 5]

Counts == 0..MaxCount

\* one package, every counter varied
ScorePkgs ==
    { [protectionPackageId |-> "1", clickedIncludes |-> a, clickedUnIncludes |-> b,
       clickedPriceDistribution |-> c, clickedDescription |-> d,
       timeSpendSelected |-> t, Selected |-> s, Unselected |-> u] :
        a \in Counts, b \in Counts, c \in Counts, d \in Counts,
        t \in Counts, s \in Counts, u \in Counts } \cup {ExamplePkg}

\* packages of the list inputs: id, one click counter and Selected varied
RankPkgs ==
    { [protectionPackageId |-> p, clickedIncludes |-> 0, clickedUnIncludes |-> b,
       clickedPriceDistribution |-> 0, clickedDescription |-> 0,
       timeSpendSelected |-> 0, Selected |-> s, Unselected |-> 0] :
        p \in PackageIds, b \in Counts, s \in Counts }

RankInputs ==
    UNION { [1..n -> RankPkgs] : n \in 0..MaxLen } \cup { <<p>> : p \in ScorePkgs }


\* ------------------------------------------------------ HTTP requests
\* TrackProtectionPlanCreate with every optional field left at its default
DefaultBody ==
    [clickedIncludes |-> 0, clickedUnIncludes |-> 0, clickedPriceDistribution |-> 0,
     clickedDescription |-> 0, timeSpendSelected |-> 0, Unselected |-> 0,
     Selected |-> 0, BookingId |-> None]

\* every counter set (the example of schemas.py BestProtectionPackageResponse)
\* and a booking id (the example of schemas.py TrackProtectionPlanCreate)
BestBody ==
    [clickedIncludes |-> 5, clickedUnIncludes |-> 2, clickedPriceDistribution |-> 3,
     clickedDescription |-> 4, timeSpendSelected |-> 571007, Unselected |-> 5,
     Selected |-> 10, BookingId |-> "booking123"]

\* requests that validation refuses: one counter below 0
NegativeBodies == { [DefaultBody EXCEPT ![f] = -1] : f \in CounterFields }

TrackBodies == {DefaultBody, BestBody} \cup NegativeBodies

\* user ids a request may name: those of the rows and one that never exists
RequestUserIds == 1..(MaxUsers + 1)

TrackRequests ==
    { [clickedIncludes |-> b.clickedIncludes,
       clickedUnIncludes |-> b.clickedUnIncludes,
       clickedPriceDistribution |-> b.clickedPriceDistribution,
       clickedDescription |-> b.clickedDescription,
       timeSpendSelected |-> b.timeSpendSelected,
       Unselected |-> b.Unselected, Selected |-> b.Selected,
       BookingId |-> b.BookingId,
       protectionPackageId |-> p, UserId |-> u] :
        b \in TrackBodies, p \in PackageIds, u \in RequestUserIds }

\* threads of the pool that serves the handlers declared with def
Workers == {1, 2}

\* a worker that serves no request
Idle == [pc |-> "idle"]

InitDb ==
    /\ users = {}
    /\ tracks = <<>>
    /\ clock = 0
    /\ response = NoResponse
    /\ sessions = [w \in Workers |-> Idle]
    /\ preferences = <<>>
    /\ questions = {}
    /\ agentic_selectors = <<>>
    /\ tasks = <<>>
    /\ reader = Idle

Init ==
    /\ InitDb
    /\ packages = <<>>
    /\ call = "pending"
    /\ ranked = [raised |-> "none", value |-> <<>>]

\* POST /users: the new row gets the next id
CreateUser ==
    /\ Cardinality(users) < MaxUsers
    /\ users' = users \cup {Cardinality(users) + 1}
    /\ response' = [op |-> "create_user", status |-> 201,
                    user_id |-> Cardinality(users) + 1, body |-> NoBody]
    /\ UNCHANGED <<tracks, clock, packages, call, ranked, sessions, genVars>>

TrackProtectionPlan ==
    \E tracking_data \in TrackRequests :
        /\ Len(tracks) < MaxTracks \/ existing_tracking(tracking_data) # 0
        /\ track_protection_plan(tracking_data)
        /\ UNCHANGED <<users, clock, packages, call, ranked, sessions, genVars>>

GetBestProtectionPackage ==
    \E user_id \in RequestUserIds :
        /\ response' = get_best_response(user_id)
        /\ UNCHANGED <<users, tracks, clock, packages, call, ranked, sessions, genVars>>

\* time passes
Tick ==
    /\ clock < MaxClock
    /\ clock' = clock + 1
    /\ UNCHANGED <<users, tracks, response, packages, call, ranked, sessions, genVars>>

\* the requests, served one after another within one reading of the clock
Next ==
    \/ CreateUser
    \/ TrackProtectionPlan
    \/ GetBestProtectionPackage

Spec == Init /\ [][Next]_vars

\* the requests of clients that all track package "1" with valid counters
PackageOneRequests ==
    { r \in TrackRequests :
        r.protectionPackageId = "1" /\ \A f \in CounterFields : r[f] >= 0 }

TrackProtectionPlanClock ==
    \E tracking_data \in PackageOneRequests :
        /\ Len(tracks) < MaxTracks \/ existing_tracking(tracking_data) # 0
        /\ track_protection_plan(tracking_data)
        /\ UNCHANGED <<users, clock, packages, call, ranked, sessions, genVars>>

\* users created and package "1" tracked, with time passing between requests
NextClock ==
    \/ CreateUser
    \/ TrackProtectionPlanClock
    \/ Tick

SpecClock == Init /\ [][NextClock]_vars

\* --------------------------------- track_protection_plan, interleaved
\* rows that workers between query and commit are about to insert
PendingInserts ==
    Cardinality({w \in Workers : sessions[w].pc = "checked" /\ sessions[w].existing = 0})

\* lines 1071-1083 in the worker's own Session: validation, the user check
\* and the query for the pair; nothing is written yet
TrackBegin(w, tracking_data) ==
    /\ sessions[w].pc = "idle"
    /\ \/ existing_tracking(tracking_data) # 0
       \/ Len(tracks) + PendingInserts < MaxTracks
    /\ IF ~valid(tracking_data)
       THEN /\ response' = [op |-> "track", status |-> 422,
                            user_id |-> tracking_data.UserId, body |-> NoBody]
            /\ UNCHANGED sessions
       ELSE IF tracking_data.UserId \notin users
       THEN /\ response' = [op |-> "track", status |-> 404,
                            user_id |-> tracking_data.UserId, body |-> NoBody]
            /\ UNCHANGED sessions
       ELSE /\ sessions' = [sessions EXCEPT ![w] =
                               [pc |-> "checked", tracking_data |-> tracking_data,
                                existing |-> existing_tracking(tracking_data),
                                loaded |-> IF existing_tracking(tracking_data) = 0
                                           THEN NoBody
                                           ELSE tracks[existing_tracking(tracking_data)]]]
            /\ UNCHANGED response
    /\ UNCHANGED <<users, tracks, clock, packages, call, ranked, genVars>>

\* the UPDATE the unit of work emits for a loaded row: the columns whose
\* assigned value differs from the loaded one, and updated_at
flushed_update(row, loaded, tracking_data) ==
    LET want == updated_tracking(loaded, tracking_data)
    IN  [f \in DOMAIN row |->
            IF f = "updated_at" \/ want[f] # loaded[f] THEN want[f] ELSE row[f]]

\* lines 1085-1098 or 1115-1132: the branch chosen from what the query
\* returned, its commit and the answer
TrackCommit(w) ==
    /\ sessions[w].pc = "checked"
    /\ LET k == sessions[w].existing
           tracking_data == sessions[w].tracking_data
       IN  IF k # 0
           THEN /\ tracks' = [tracks EXCEPT ![k] =
                                 flushed_update(tracks[k], sessions[w].loaded, tracking_data)]
                /\ response' = [op |-> "track", status |-> 200,
                                user_id |-> tracking_data.UserId, body |-> tracks'[k]]
           ELSE /\ tracks' = Append(tracks, new_tracking(tracking_data))
                /\ response' = [op |-> "track", status |-> 200,
                                user_id |-> tracking_data.UserId,
                                body |-> tracks'[Len(tracks')]]
    /\ sessions' = [sessions EXCEPT ![w] = Idle]
    /\ UNCHANGED <<users, clock, packages, call, ranked, genVars>>

TrackBeginAny ==
    \E w \in Workers : \E tracking_data \in PackageOneRequests :
        TrackBegin(w, tracking_data)

TrackCommitAny == \E w \in Workers : TrackCommit(w)

\* users created and package "1" tracked by requests served concurrently
NextConc ==
    \/ CreateUser
    \/ TrackBeginAny
    \/ TrackCommitAny

SpecConc == Init /\ [][NextConc]_vars

\* ------------------------------------------- preferences and their questions
\* celery_tasks.py line 31: self.retry(..., max_retries=3)
max_retries == 3

\* preferences created, items of one AI answer
MaxPrefs == 1
MaxQuestions == 2

\* tasks sent: one per preference and a recommendation task
MaxTasks == MaxPrefs + 1

\* a Celery task as sent by .delay: nothing executed yet
task(kind, arg) ==
    [kind |-> kind, arg |-> arg, retries |-> 0, executions |-> 0,
     state |-> "PENDING", pc |-> "queued",
     pending |-> <<>>, created_questions |-> <<>>, result |-> NoBody]

\* POST /preferences: 404 for an unknown user, else the row is committed
\* with status "pending" and generate_questions_task is sent
CreatePreference ==
    \E user_id \in RequestUserIds :
        /\ \/ ~user_found(user_id)
           \/ Len(preferences) < MaxPrefs /\ Len(tasks) < MaxTasks
        /\ IF ~user_found(user_id)
           THEN /\ response' = [op |-> "create_preference", status |-> 404,
                                user_id |-> user_id, body |-> NoBody]
                /\ UNCHANGED <<preferences, tasks>>
           ELSE /\ preferences' = Append(preferences,
                                     [user_id |-> user_id, status |-> "pending"])
                /\ tasks' = Append(tasks, task("questions", Len(preferences) + 1))
                /\ response' = [op |-> "create_preference", status |-> 201,
                                user_id |-> user_id,
                                body |-> [id |-> Len(preferences) + 1,
                                          status |-> "pending"]]
        /\ UNCHANGED <<users, tracks, clock, sessions, questions,
                       agentic_selectors, reader, packages, call, ranked>>

\* POST /agentic-selector: 404 for an unknown user, else
\* generate_vehicle_recommendation_task is sent
CreateAgenticSelector ==
    \E user_id \in RequestUserIds :
        /\ \/ ~user_found(user_id)
           \/ Len(tasks) < MaxTasks
        /\ IF ~user_found(user_id)
           THEN /\ response' = [op |-> "create_agentic_selector", status |-> 404,
                                user_id |-> user_id, body |-> NoBody]
                /\ UNCHANGED tasks
           ELSE /\ tasks' = Append(tasks, task("recommendation", user_id))
                /\ response' = [op |-> "create_agentic_selector", status |-> 200,
                                user_id |-> user_id, body |-> NoBody]
        /\ UNCHANGED <<users, tracks, clock, sessions, preferences, questions,
                       agentic_selectors, reader, packages, call, ranked>>

\* self.retry counting one retry less
retry_one_less(t) ==
    IF t.retries + 1 >= max_retries
    THEN [t EXCEPT !.state = "FAILURE", !.pc = "done", !.pending = <<>>]
    ELSE [t EXCEPT !.retries = @ + 1, !.state = "RETRY", !.pc = "queued",
                   !.pending = <<>>]

\* raise self.retry(exc=exc, countdown=60, max_retries=3): the task is sent
\* again with retries + 1, unless that exceeds max_retries: then exc is
\* raised and the task ends in FAILURE
retry(t) ==
    IF t.retries + 1 > max_retries
    THEN [t EXCEPT !.state = "FAILURE", !.pc = "done", !.pending = <<>>]
    ELSE [t EXCEPT !.retries = @ + 1, !.state = "RETRY", !.pc = "queued",
                   !.pending = <<>>]

\* what the AI may answer: a list whose items are a well-formed question, a
\* question object whose question_type is null, or a value that is no object
AIItems == {"question", "null_question_type", "not_an_object"}

AIResponses == UNION { [1..n -> AIItems] : n \in 0..MaxQuestions }

\* the call and json.loads either raise or yield response_data["questions"]
AIOutcomes ==
    {[raised |-> TRUE, questions_data |-> <<>>]}
        \cup { [raised |-> FALSE, questions_data |-> r] : r \in AIResponses }

\* lines 418-424: the Question built from one item; q_data.get(key, default)
\* returns None for a key that is present with the value null (run records
\* which execution built the object; the code keeps no such column)
db_question(q_data, preference_id, run) ==
    [preference_id |-> preference_id,
     question_type |-> IF q_data = "null_question_type" THEN None ELSE "choice",
     importance |-> 1,
     run |-> run]

\* the id read from a Question as if it were already flushed
pending_id_assigned(i) == i

\* the id None of an object without a row, written 0: no row has the id 0
NoId == 0

\* an Optional[int] or Optional[bool]: None is <<>>, the value v is <<v>>
NoInt == <<>>

\* line 431: db_question.id of a Question that is added but not yet flushed
pending_id(i) == NoId

\* lines 416-431: the loop over questions_data; q_data.get raises on an item
\* that is no object, after the items before it were added to the session
build(questions_data, preference_id, run) ==
    LET bad == {i \in 1..Len(questions_data) : questions_data[i] = "not_an_object"}
        n == IF bad = {} THEN Len(questions_data)
             ELSE (CHOOSE i \in bad : \A j \in bad : i <= j) - 1
    IN  [raised |-> bad # {},
         pending |-> [i \in 1..n |-> db_question(questions_data[i], preference_id, run)],
         created_questions |-> [i \in 1..n |-> pending_id(i)]]

\* models.py line 32: question_type is NOT NULL, the INSERT of such a row fails
flush_fails(pending) == \E i \in 1..Len(pending) : pending[i].question_type = None

\* the largest id in the table, 0 for an empty table
max_id(qs) == IF qs = {} THEN 0 ELSE CHOOSE m \in {q.id : q \in qs} : \A q \in qs : q.id <= m

\* the INSERTs of a flush: each pending Question gets the next id and the
\* column defaults
flush(qs, pending) ==
    qs \cup { [id |-> max_id(qs) + i,
               preference_id |-> pending[i].preference_id,
               question_type |-> pending[i].question_type,
               answer |-> None, answer_score |-> NoInt,
               importance |-> pending[i].importance,
               frustrated |-> FALSE,
               run |-> pending[i].run] : i \in 1..Len(pending) }

\* the execution of a task that is running now
RunOf(t) == [task |-> t, n |-> tasks[t].executions]

\* lines 331-341: a worker takes the task; the preference is looked up and
\* committed as "generating" (a preference that is gone ends the run)
StartRun(t) ==
    /\ tasks[t].kind = "questions"
    /\ tasks[t].pc = "queued"
    /\ IF tasks[t].arg \in 1..Len(preferences)
       THEN /\ preferences' = [preferences EXCEPT ![tasks[t].arg].status = "generating"]
            /\ tasks' = [tasks EXCEPT ![t].state = "STARTED", ![t].pc = "generate",
                                      ![t].executions = @ + 1]
       ELSE /\ tasks' = [tasks EXCEPT ![t].state = "SUCCESS", ![t].pc = "done",
                                      ![t].executions = @ + 1,
                                      ![t].result = [status |-> "success",
                                                     preference_id |-> tasks[t].arg,
                                                     questions_created |-> 0,
                                                     question_ids |-> None]]
            /\ UNCHANGED preferences
    /\ UNCHANGED <<users, tracks, clock, response, sessions, questions,
                   agentic_selectors, reader, packages, call, ranked>>

\* lines 343-431: the AI call, json.loads and the loop that builds the
\* questions; nothing of it reaches the database
Generate(t, outcomes) ==
    /\ tasks[t].pc = "generate"
    /\ \E outcome \in outcomes :
          LET b == build(outcome.questions_data, tasks[t].arg, RunOf(t))
          IN  IF outcome.raised
              THEN tasks' = [tasks EXCEPT ![t].pc = "except"]
              ELSE IF b.raised
              THEN tasks' = [tasks EXCEPT ![t].pc = "except", ![t].pending = b.pending]
              ELSE tasks' = [tasks EXCEPT ![t].pc = "commit", ![t].pending = b.pending,
                                          ![t].created_questions = b.created_questions]
    /\ UNCHANGED <<users, tracks, clock, response, sessions, preferences, questions,
                   agentic_selectors, reader, packages, call, ranked>>

\* lines 433-438 and celery_tasks.py 23-28: status "completed" and the
\* pending questions go out in one commit; a commit that fails rolls back,
\* which also drops the pending questions from the session
CommitCompleted(t) ==
    /\ tasks[t].pc = "commit"
    /\ IF flush_fails(tasks[t].pending)
       THEN /\ tasks' = [tasks EXCEPT ![t].pc = "except", ![t].pending = <<>>]
            /\ UNCHANGED <<preferences, questions>>
       ELSE /\ questions' = flush(questions, tasks[t].pending)
            /\ preferences' = [preferences EXCEPT ![tasks[t].arg].status = "completed"]
            /\ tasks' = [tasks EXCEPT ![t].state = "SUCCESS", ![t].pc = "done",
                              ![t].pending = <<>>,
                              ![t].result =
                                 [status |-> "success",
                                  preference_id |-> tasks[t].arg,
                                  questions_created |-> Len(tasks[t].created_questions),
                                  question_ids |-> tasks[t].created_questions]]
    /\ UNCHANGED <<users, tracks, clock, response, sessions,
                   agentic_selectors, reader, packages, call, ranked>>

\* lines 440-452 and celery_tasks.py 29-31: the handler sets "failed" and
\* commits with the same session, whose pending questions the commit flushes
\* too; a commit that fails is swallowed; then the exception reaches the task,
\* which retries
ExceptHandler(t) ==
    /\ tasks[t].pc = "except"
    /\ IF tasks[t].arg \in 1..Len(preferences) /\ ~flush_fails(tasks[t].pending)
       THEN /\ questions' = flush(questions, tasks[t].pending)
            /\ preferences' = [preferences EXCEPT ![tasks[t].arg].status = "failed"]
       ELSE UNCHANGED <<preferences, questions>>
    /\ tasks' = [tasks EXCEPT ![t] = retry(tasks[t])]
    /\ UNCHANGED <<users, tracks, clock, response, sessions,
                   agentic_selectors, reader, packages, call, ranked>>

\* celery_tasks.py 46-70: one execution of the recommendation task: the AI
\* call or the save raises and the task retries, or the row is saved
RecommendationRun(t) ==
    /\ tasks[t].kind = "recommendation"
    /\ tasks[t].pc = "queued"
    /\ \E raised \in BOOLEAN :
          IF raised \/ ~user_found(tasks[t].arg)
          THEN /\ tasks' = [tasks EXCEPT ![t] = retry([tasks[t] EXCEPT !.executions = @ + 1])]
               /\ UNCHANGED agentic_selectors
          ELSE /\ agentic_selectors' = Append(agentic_selectors, tasks[t].arg)
               /\ tasks' = [tasks EXCEPT ![t].state = "SUCCESS", ![t].pc = "done",
                                 ![t].executions = @ + 1,
                                 ![t].result =
                                    [status |-> "success", user_id |-> tasks[t].arg,
                                     agentic_selector_id |-> Len(agentic_selectors) + 1]]
    /\ UNCHANGED <<users, tracks, clock, response, sessions, preferences, questions,
                   reader, packages, call, ranked>>

\* main.py line 759: GET /preferences/{preference_id} reads the preference row
ReadPreference ==
    \E preference_id \in 1..MaxPrefs :
        /\ reader.pc = "idle"
        /\ IF preference_id \in 1..Len(preferences)
           THEN /\ reader' = [pc |-> "loaded", preference_id |-> preference_id,
                              user_id |-> preferences[preference_id].user_id,
                              status |-> preferences[preference_id].status]
                /\ UNCHANGED response
           ELSE /\ response' = [op |-> "get_preference", status |-> 404,
                                user_id |-> 0, body |-> NoBody]
                /\ UNCHANGED reader
        /\ UNCHANGED <<users, tracks, clock, sessions, preferences, questions,
                       agentic_selectors, tasks, packages, call, ranked>>

\* main.py lines 768-788: preference.questions is loaded by a second SELECT,
\* which sees what is committed by then, and the answer is built
ReadQuestions ==
    /\ reader.pc = "loaded"
    /\ response' = [op |-> "get_preference", status |-> 200,
                    user_id |-> reader.user_id,
                    body |-> [id |-> reader.preference_id,
                              status |-> reader.status,
                              questions |-> {q \in questions :
                                               q.preference_id = reader.preference_id}]]
    /\ reader' = Idle
    /\ UNCHANGED <<users, tracks, clock, sessions, preferences, questions,
                   agentic_selectors, tasks, packages, call, ranked>>

StartRunAny == \E t \in DOMAIN tasks : StartRun(t)
GenerateAny == \E t \in DOMAIN tasks : Generate(t, AIOutcomes)
CommitCompletedAny == \E t \in DOMAIN tasks : CommitCompleted(t)
ExceptHandlerAny == \E t \in DOMAIN tasks : ExceptHandler(t)
RecommendationRunAny == \E t \in DOMAIN tasks : RecommendationRun(t)

\* preferences created, their questions generated by the worker, read back
NextGen ==
    \/ CreateUser
    \/ CreatePreference
    \/ StartRunAny
    \/ GenerateAny
    \/ CommitCompletedAny
    \/ ExceptHandlerAny
    \/ ReadPreference
    \/ ReadQuestions

SpecGen == Init /\ [][NextGen]_vars

\* the AI raises or answers one well-formed question
PlainOutcomes ==
    {[raised |-> TRUE, questions_data |-> <<>>],
     [raised |-> FALSE, questions_data |-> <<"question">>]}

GeneratePlain == \E t \in DOMAIN tasks : Generate(t, PlainOutcomes)

\* both kinds of task, sent by their endpoints and executed by the worker
NextTasks ==
    \/ CreateUser
    \/ CreatePreference
    \/ CreateAgenticSelector
    \/ StartRunAny
    \/ GeneratePlain
    \/ CommitCompletedAny
    \/ ExceptHandlerAny
    \/ RecommendationRunAny

SpecTasks == Init /\ [][NextTasks]_vars

\* ------------------------------------------------- the question endpoints
\* the update that commits the fields assigned before the importance check
update_question_answer_partial(question, answer, answer_score, importance, frustrated) ==
    LET q1 == IF answer # None THEN [question EXCEPT !.answer = answer] ELSE question
        q2 == IF answer_score # NoInt THEN [q1 EXCEPT !.answer_score = answer_score] ELSE q1
    IN  IF importance # NoInt /\ (importance[1] < 1 \/ importance[1] > 5)
        THEN [status |-> 400, row |-> q2]
        ELSE LET q3 == IF importance # NoInt THEN [q2 EXCEPT !.importance = importance[1]] ELSE q2
                 q4 == IF frustrated # NoInt THEN [q3 EXCEPT !.frustrated = frustrated[1]] ELSE q3
             IN  [status |-> 200, row |-> q4]

\* main.py lines 1416-1432: the fields are assigned to the loaded object in
\* order; the 400 for an importance outside 1..5 is raised before db.commit(),
\* and the session is closed without one, so the row stays as stored
update_question_answer(question, answer, answer_score, importance, frustrated) ==
    LET q1 == IF answer # None THEN [question EXCEPT !.answer = answer] ELSE question
        q2 == IF answer_score # NoInt THEN [q1 EXCEPT !.answer_score = answer_score] ELSE q1
    IN  IF importance # NoInt /\ (importance[1] < 1 \/ importance[1] > 5)
        THEN [status |-> 400, row |-> question]
        ELSE LET q3 == IF importance # NoInt THEN [q2 EXCEPT !.importance = importance[1]] ELSE q2
                 q4 == IF frustrated # NoInt THEN [q3 EXCEPT !.frustrated = frustrated[1]] ELSE q3
             IN  [status |-> 200, row |-> q4]

\* the question ids a request may name: those of the rows and one more
RequestQuestionIds == 1..(MaxPrefs + 1)

\* answer, answer_score and frustrated of a request: none of them, the
\* answer alone, or all three
AnswerParams ==
    {[answer |-> None, answer_score |-> NoInt, frustrated |-> NoInt],
     [answer |-> "yes", answer_score |-> NoInt, frustrated |-> NoInt],
     [answer |-> "yes", answer_score |-> <<5>>, frustrated |-> <<TRUE>>]}

\* the query parameters of PUT /questions/{question_id}/answer: importance
\* absent, below 1, within 1..5 or above 5
AnswerRequests ==
    { [question_id |-> i, answer |-> a.answer, answer_score |-> a.answer_score,
       importance |-> m, frustrated |-> a.frustrated] :
         i \in RequestQuestionIds, a \in AnswerParams,
         m \in {NoInt, <<0>>, <<3>>, <<6>>} }

\* PUT /questions/{question_id}/answer with the parameters r
UpdateQuestionAnswerOf(r) ==
    LET found == {q \in questions : q.id = r.question_id}
    IN  /\ IF found = {}
           THEN /\ response' = [op |-> "update_question_answer", status |-> 404,
                                user_id |-> 0, body |-> NoBody]
                /\ UNCHANGED questions
           ELSE LET question == CHOOSE q \in found : TRUE
                    out == update_question_answer(question, r.answer, r.answer_score,
                                                  r.importance, r.frustrated)
                IN  /\ questions' = (questions \ {question}) \cup {out.row}
                    /\ response' = [op |-> "update_question_answer",
                                    status |-> out.status, user_id |-> 0,
                                    body |-> IF out.status = 200 THEN out.row ELSE NoBody]
        /\ UNCHANGED <<users, tracks, clock, sessions, preferences,
                       agentic_selectors, tasks, reader, packages, call, ranked>>

UpdateQuestionAnswer == \E r \in AnswerRequests : UpdateQuestionAnswerOf(r)

\* DELETE /questions/{question_id}: db.delete(db_question) and the commit
\* remove that row; Question.preference declares no cascade
DeleteQuestion ==
    \E question_id \in RequestQuestionIds :
        LET found == {q \in questions : q.id = question_id}
        IN  /\ IF found = {}
               THEN /\ response' = [op |-> "delete_question", status |-> 404,
                                    user_id |-> 0, body |-> NoBody]
                    /\ UNCHANGED questions
               ELSE /\ questions' = questions \ found
                    /\ response' = [op |-> "delete_question", status |-> 204,
                                    user_id |-> 0, body |-> NoBody]
            /\ UNCHANGED <<users, tracks, clock, sessions, preferences,
                           agentic_selectors, tasks, reader, packages, call, ranked>>

\* the AI answers one well-formed question
QuestionOutcomes == {[raised |-> FALSE, questions_data |-> <<"question">>]}

GenerateQuestion == \E t \in DOMAIN tasks : Generate(t, QuestionOutcomes)

\* questions generated for a preference, then answered and deleted
NextQuestions ==
    \/ CreateUser
    \/ CreatePreference
    \/ StartRunAny
    \/ GenerateQuestion
    \/ CommitCompletedAny
    \/ UpdateQuestionAnswer
    \/ DeleteQuestion

SpecQuestions == Init /\ [][NextQuestions]_vars

\* ------------------------------------------------------ the pure call
InitRank ==
    /\ packages \in RankInputs
    /\ call = "pending"
    /\ ranked = [raised |-> "none", value |-> <<>>]
    /\ InitDb

\* best = compute_best_package(packages)
Rank ==
    /\ call = "pending"
    /\ call' = "done"
    /\ ranked' = compute_best_package(packages)
    /\ UNCHANGED <<packages, users, tracks, clock, response, sessions, genVars>>

NextRank == Rank

SpecRank == InitRank /\ [][NextRank]_vars

\* ------------------------------------------------- properties of the call
Returned == call = "done" /\ ranked.raised = "none"

\* how often package record p occurs in a list of package records
Occurrences(p, pkgs) == Cardinality({i \in 1..Len(pkgs) : pkgs[i] = p})

RankedData == [i \in 1..Len(ranked.value) |-> ranked.value[i].package_data]

\* score of an input record, from the sub-scores of lines 1272-1285
ScoreOf(p) == final_score(engagement(p), conversion_rate(p), consistency(p))

\* C1: for a non-empty input the call returns a list of the same length in
\* which every input record occurs exactly as often as in the input, each
\* carrying the package id of its record: nothing dropped, nothing duplicated.
C1_RankIsPermutation ==
    (call = "done" /\ packages # <<>>) =>
        /\ ranked.raised = "none"
        /\ Len(ranked.value) = Len(packages)
        /\ \A i \in 1..Len(packages) :
              Occurrences(packages[i], RankedData) = Occurrences(packages[i], packages)
        /\ \A i \in 1..Len(ranked.value) :
              ranked.value[i].protectionPackageId =
                  ranked.value[i].package_data.protectionPackageId

\* a returned ranking of three records, two of them with the same package id,
\* in an order different from the input's
C1_Witness ==
    /\ Returned
    /\ Len(packages) = 3
    /\ packages[1].protectionPackageId = packages[3].protectionPackageId
    /\ packages[1] # packages[3]
    /\ Len(ranked.value) = 3
    /\ RankedData # packages

\* C2: the returned list is sorted non-increasing by final_score: no element
\* has a smaller score than its successor.
C2_SortedNonIncreasing ==
    Returned =>
        \A i \in 1..(Len(ranked.value) - 1) :
            RLe(ranked.value[i + 1].final_score, ranked.value[i].final_score)

\* three records given in strictly increasing score order, returned
C2_Witness ==
    /\ Returned
    /\ Len(packages) = 3
    /\ RLt(ScoreOf(packages[1]), ScoreOf(packages[2]))
    /\ RLt(ScoreOf(packages[2]), ScoreOf(packages[3]))
    /\ Len(ranked.value) = 3

\* C3 as stated: ranking an empty collection raises EmptyInputError.
C3_EmptyRaisesEmptyInputError ==
    (call = "done" /\ packages = <<>>) => ranked.raised = "EmptyInputError"

\* C3 amended: ranking an empty collection raises nothing and returns the
\* empty ranking.
C3_EmptyReturnsEmptyRanking ==
    (call = "done" /\ packages = <<>>) =>
        (ranked.raised = "none" /\ ranked.value = <<>>)

C3_Witness == call = "done" /\ packages = <<>>

\* C6: records of equal final_score keep their input order: for every score
\* x, the returned records of score x, read front to back, are the input
\* records of score x, read front to back.
C6_StableOnTies ==
    Returned =>
        \A k \in 1..Len(packages) :
            LET x == ScoreOf(packages[k])
                out == SelectSeq(ranked.value, LAMBDA e : e.final_score = x)
            IN  [i \in 1..Len(out) |-> out[i].package_data] =
                    SelectSeq(packages, LAMBDA p : ScoreOf(p) = x)

\* two different records of equal score, the second one given last, below a
\* record of a higher score given between them
C6_Witness ==
    /\ Returned
    /\ Len(packages) = 3
    /\ packages[1] # packages[3]
    /\ ScoreOf(packages[1]) = ScoreOf(packages[3])
    /\ RLt(ScoreOf(packages[1]), ScoreOf(packages[2]))
    /\ RankedData = <<packages[2], packages[1], packages[3]>>

\* C8: every returned entry has final_score = 0.5*engagement +
\* 0.3*conversion_rate + 0.2*consistency of that entry, and the example input
\* (5, 2, 3, 4, 571007 ms, 10, 5) gives engagement 77.4007, conversion_rate
\* 0.625, consistency 0.6875 and final_score 39.02535.
C8_FinalScoreBlend ==
    Returned =>
        /\ \A i \in 1..Len(ranked.value) :
              LET e == ranked.value[i]
              IN  e.final_score =
                      RAdd(RAdd(RMul(Rat(5, 10), e.engagement),
                                RMul(Rat(3, 10), e.conversion_rate)),
                           RMul(Rat(2, 10), e.consistency))
        /\ packages = <<ExamplePkg>> =>
              /\ ranked.value[1].engagement = Rat(774007, 10000)
              /\ ranked.value[1].conversion_rate = Rat(625, 1000)
              /\ ranked.value[1].consistency = Rat(6875, 10000)
              /\ ranked.value[1].final_score = Rat(3902535, 100000)

C8_Witness == Returned /\ packages = <<ExamplePkg>> /\ Len(ranked.value) = 1

\* C9: engagement = 1.5*clicked_includes + 1.0*clicked_un_includes +
\* 2.0*clicked_price_distribution + 1.2*clicked_description + time/10000,
\* the time term not truncated: engagement is exactly the fraction
\* (15000*ci + 10000*cui + 20000*cpd + 12000*cd + time) / 10000.
C9_EngagementFormula ==
    Returned =>
        \A i \in 1..Len(ranked.value) :
            LET e == ranked.value[i]
                p == e.package_data
            IN  e.engagement =
                    Rat( 15000 * p.clickedIncludes + 10000 * p.clickedUnIncludes
                       + 20000 * p.clickedPriceDistribution
                       + 12000 * p.clickedDescription + p.timeSpendSelected,
                         10000 )

\* an entry whose time is no multiple of 10000 ms and whose clicks are all set
C9_Witness ==
    /\ Returned
    /\ \E i \in 1..Len(ranked.value) :
          LET p == ranked.value[i].package_data
          IN  /\ p.timeSpendSelected % 10000 # 0
              /\ p.timeSpendSelected > 10000
              /\ p.clickedIncludes > 0 /\ p.clickedUnIncludes > 0
              /\ p.clickedPriceDistribution > 0 /\ p.clickedDescription > 0

\* C10: with non-negative counters conversion_rate = selected / (selected +
\* unselected + 1), which is at least 0 and strictly below 1.
C10_ConversionRate ==
    Returned =>
        \A i \in 1..Len(ranked.value) :
            LET e == ranked.value[i]
                p == e.package_data
            IN  (p.Selected >= 0 /\ p.Unselected >= 0) =>
                  /\ e.conversion_rate.n * (p.Selected + p.Unselected + 1) =
                         e.conversion_rate.d * p.Selected
                  /\ e.conversion_rate.n >= 0
                  /\ e.conversion_rate.n < e.conversion_rate.d

\* an entry selected but never unselected: the unsmoothed ratio would be 1
C10_Witness ==
    /\ Returned
    /\ \E i \in 1..Len(ranked.value) :
          /\ ranked.value[i].package_data.Selected > 0
          /\ ranked.value[i].package_data.Unselected = 0
          /\ ranked.value[i].conversion_rate.n > 0

\* C11: with non-negative counters consistency = 1 - |selected - unselected|
\* / (selected + unselected + 1), which is strictly above 0 and at most 1.
C11_ConsistencyFormula ==
    Returned =>
        \A i \in 1..Len(ranked.value) :
            LET e == ranked.value[i]
                p == e.package_data
                diff == IF p.Selected >= p.Unselected THEN p.Selected - p.Unselected
                        ELSE p.Unselected - p.Selected
            IN  (p.Selected >= 0 /\ p.Unselected >= 0) =>
                  /\ e.consistency =
                         Rat(p.Selected + p.Unselected + 1 - diff,
                             p.Selected + p.Unselected + 1)
                  /\ e.consistency.n > 0
                  /\ e.consistency.n <= e.consistency.d

\* an entry unselected more often than selected: the difference is negative
C11_Witness ==
    /\ Returned
    /\ \E i \in 1..Len(ranked.value) :
          /\ ranked.value[i].package_data.Selected <
                 ranked.value[i].package_data.Unselected
          /\ ranked.value[i].consistency.n < ranked.value[i].consistency.d

\* C12: a package with selected = 0 and unselected = 0 gets conversion_rate
\* exactly 0 and consistency exactly 1, whatever its click counters are.
C12_ZeroSelections ==
    Returned =>
        \A i \in 1..Len(ranked.value) :
            LET e == ranked.value[i]
            IN  (e.package_data.Selected = 0 /\ e.package_data.Unselected = 0) =>
                    (e.conversion_rate = RInt(0) /\ e.consistency = RInt(1))

\* an entry never selected nor unselected, with clicks and time recorded
C12_Witness ==
    /\ Returned
    /\ \E i \in 1..Len(ranked.value) :
          LET p == ranked.value[i].package_data
          IN  /\ p.Selected = 0 /\ p.Unselected = 0
              /\ p.clickedIncludes > 0 /\ p.clickedDescription > 0
              /\ p.timeSpendSelected > 0

NonNegative(p) ==
    /\ p.clickedIncludes >= 0 /\ p.clickedUnIncludes >= 0
    /\ p.clickedPriceDistribution >= 0 /\ p.clickedDescription >= 0
    /\ p.timeSpendSelected >= 0 /\ p.Selected >= 0 /\ p.Unselected >= 0

\* C13: for a non-empty input whose counters are all non-negative the call
\* completes without raising: it returns one entry per record, and no
\* denominator selected + unselected + 1 is zero.
C13_NoRaiseOnNonNegative ==
    (call = "done" /\ packages # <<>>
        /\ \A i \in 1..Len(packages) : NonNegative(packages[i])) =>
        /\ ranked.raised = "none"
        /\ Len(ranked.value) = Len(packages)
        /\ \A i \in 1..Len(packages) : denominator(packages[i]) # 0

\* a list of full length with a record never selected nor unselected, returned
C13_Witness ==
    /\ call = "done"
    /\ Len(packages) = MaxLen
    /\ \E i \in 1..Len(packages) :
          packages[i].Selected = 0 /\ packages[i].Unselected = 0
    /\ ranked.raised = "none"
    /\ Len(ranked.value) = MaxLen

\* C19: with non-negative counters a package with selected = unselected has
\* consistency 1, and a package with selected # unselected has consistency
\* strictly below 1.
C19_ConsistencyMaximalIffBalanced ==
    Returned =>
        \A i \in 1..Len(ranked.value) :
            LET e == ranked.value[i]
                p == e.package_data
            IN  (p.Selected >= 0 /\ p.Unselected >= 0) =>
                  /\ p.Selected = p.Unselected => e.consistency = RInt(1)
                  /\ p.Selected # p.Unselected => RLt(e.consistency, RInt(1))

\* a balanced entry with selections, and a one-sided entry
C19_Witness ==
    /\ Returned
    /\ \E i \in 1..Len(ranked.value) :
          /\ ranked.value[i].package_data.Selected > 0
          /\ ranked.value[i].package_data.Selected =
                 ranked.value[i].package_data.Unselected
          /\ ranked.value[i].consistency = RInt(1)

\* ------------------------------------------ properties of the endpoints
\* the latest request was GET /protection-package/best/{user_id}; no request
\* has touched the tables since
AnsweredBest == response.op = "get_best"

\* C4: GET /protection-package/best/{user_id} answers 404 whenever the user
\* has no tracking row, and 200 with the data of one of the user's rows
\* whenever the user has at least one.
C4_BestNotFoundIffNoRecord ==
    AnsweredBest =>
        LET pkgs == user_packages(response.user_id)
        IN  /\ pkgs = <<>> => response.status = 404
            /\ pkgs # <<>> =>
                  /\ response.status = 200
                  /\ \E i \in 1..Len(pkgs) :
                        response.body.package_data = package_dict(pkgs[i])

\* 404 for an existing user without rows while another user has rows
C4_Witness ==
    /\ AnsweredBest
    /\ response.status = 404
    /\ response.user_id \in users
    /\ tracks # <<>>

\* C5: the package reported as best is the head of the ranking: it is one of
\* the user's rows and no row of that user has a larger final_score.
C5_BestHasMaximalScore ==
    (AnsweredBest /\ response.status = 200) =>
        LET pkgs == user_packages(response.user_id)
        IN  /\ response.body.score = ScoreOf(response.body.package_data)
            /\ response.body.protectionPackageId =
                   response.body.package_data.protectionPackageId
            /\ \E i \in 1..Len(pkgs) :
                  response.body.package_data = package_dict(pkgs[i])
            /\ \A i \in 1..Len(pkgs) :
                  RLe(ScoreOf(package_dict(pkgs[i])), response.body.score)

\* two rows of one user, the lower score stored first: the second is reported
C5_Witness ==
    /\ AnsweredBest
    /\ response.status = 200
    /\ LET pkgs == user_packages(response.user_id)
       IN  /\ Len(pkgs) = 2
           /\ RLt(ScoreOf(package_dict(pkgs[1])), ScoreOf(package_dict(pkgs[2])))
           /\ response.body.package_data = package_dict(pkgs[2])

\* a request with a counter below 0
HasNegative(tracking_data) == \E f \in CounterFields : tracking_data[f] < 0

\* the counters and the booking id of a row are those of a request
HoldsRequest(row, tracking_data) ==
    /\ row.clicked_includes = tracking_data.clickedIncludes
    /\ row.clicked_un_includes = tracking_data.clickedUnIncludes
    /\ row.clicked_price_distribution = tracking_data.clickedPriceDistribution
    /\ row.clicked_description = tracking_data.clickedDescription
    /\ row.time_spend_selected = tracking_data.timeSpendSelected
    /\ row.unselected = tracking_data.Unselected
    /\ row.selected = tracking_data.Selected
    /\ row.booking_id = tracking_data.BookingId

\* C14: with the requests served one after another there is at most one
\* tracking row for each (UserId, protectionPackageId) pair, and the ids of
\* the rows are their positions: a request for a stored pair adds no row.
C14_OneRowPerPair ==
    \A i \in 1..Len(tracks) :
        /\ tracks[i].id = i
        /\ \A j \in 1..Len(tracks) :
              (tracks[i].user_id = tracks[j].user_id
                 /\ tracks[i].protection_package_id = tracks[j].protection_package_id)
                  => i = j

\* a request for a pair stored before another row was answered with that row,
\* now holding a booking id
C14_Witness ==
    /\ response.op = "track"
    /\ response.status = 200
    /\ Len(tracks) >= 2
    /\ response.body.id < Len(tracks)
    /\ response.body.booking_id # None
    /\ tracks[response.body.id] = response.body

\* C15: a request for a stored (UserId, protectionPackageId) pair overwrites:
\* afterwards every counter and the booking id of the row are those of the
\* request, whatever was stored, the row keeps its id, created_at, user and
\* package, and no other row changes.
C15_UpdateOverwrites ==
    [][\A tracking_data \in PackageOneRequests :
          LET k == existing_tracking(tracking_data)
          IN  (~HasNegative(tracking_data) /\ tracking_data.UserId \in users
                 /\ k # 0 /\ track_protection_plan(tracking_data)) =>
                /\ Len(tracks') = Len(tracks)
                /\ HoldsRequest(tracks'[k], tracking_data)
                /\ tracks'[k].id = tracks[k].id
                /\ tracks'[k].created_at = tracks[k].created_at
                /\ tracks'[k].user_id = tracks[k].user_id
                /\ tracks'[k].protection_package_id = tracks[k].protection_package_id
                /\ \A i \in 1..Len(tracks) : i # k => tracks'[i] = tracks[i]
                /\ response'.status = 200
                /\ response'.body = tracks'[k]]_vars

\* a row created at an earlier reading of the clock with non-zero counters,
\* overwritten later by a request that leaves every counter at 0
C15_Witness ==
    /\ response.op = "track"
    /\ response.status = 200
    /\ response.body.created_at < response.body.updated_at
    /\ response.body.clicked_includes = 0
    /\ response.body.selected = 0
    /\ response.body.booking_id = None
    /\ tracks[response.body.id] = response.body

RowNonNegative(row) ==
    /\ row.clicked_includes >= 0 /\ row.clicked_un_includes >= 0
    /\ row.clicked_price_distribution >= 0 /\ row.clicked_description >= 0
    /\ row.time_spend_selected >= 0 /\ row.selected >= 0 /\ row.unselected >= 0

\* the requests that carry a counter below 0
NegativeRequests == { r \in TrackRequests : HasNegative(r) }

\* C16: every stored row has all its counters at 0 or above, and a request
\* with a counter below 0 is answered 422 and changes no table.
C16_CountersNonNegative ==
    /\ [](\A i \in 1..Len(tracks) : RowNonNegative(tracks[i]))
    /\ [][(tracks' = tracks /\ response'.status = 422)
           \/ \A tracking_data \in NegativeRequests :
                  ~track_protection_plan(tracking_data)]_vars

\* a request refused with 422 for an existing user while rows are stored
C16_Witness ==
    /\ response.op = "track"
    /\ response.status = 422
    /\ response.user_id \in users
    /\ tracks # <<>>

\* C17: computing the best package changes none of its input: the request
\* GET /protection-package/best/{user_id} leaves both tables as they were,
\* and the record it reports is a stored row as stored, not altered by
\* compute_best_package.
C17_BestIsReadOnly ==
    [][response'.op = "get_best" =>
          /\ tracks' = tracks
          /\ users' = users
          /\ response'.status = 200 =>
                \E i \in 1..Len(tracks) :
                    /\ tracks[i].user_id = response'.user_id
                    /\ response'.body.package_data = package_dict(tracks[i])]_vars

\* a best package with a non-zero time was reported
C17_Witness ==
    /\ AnsweredBest
    /\ response.status = 200
    /\ response.body.package_data.timeSpendSelected > 10000
    /\ Len(tracks) >= 2

\* the rows of user u, read off the table
OwnRows(u) == SelectSeq(tracks, LAMBDA row : row.user_id = u)

\* C18: the answer to GET /protection-package/best/u is a function of u's own
\* rows: 404 if there are none, else the head of the ranking of exactly those
\* rows, whatever rows other users have.
C18_BestDependsOnOwnRows ==
    AnsweredBest =>
        LET own == OwnRows(response.user_id)
            ranking == compute_best_package([i \in 1..Len(own) |-> package_dict(own[i])])
        IN  /\ own = <<>> => (response.status = 404 /\ response.body = NoBody)
            /\ own # <<>> =>
                  /\ response.status = 200
                  /\ response.body = best_response(ranking.value[1])

\* the best package of a user was reported while another user holds a row of
\* a higher score
C18_Witness ==
    /\ AnsweredBest
    /\ response.status = 200
    /\ \E i \in 1..Len(tracks) :
          /\ tracks[i].user_id # response.user_id
          /\ RLt(response.body.score, ScoreOf(package_dict(tracks[i])))

\* C20: also when requests for one (UserId, protectionPackageId) pair are
\* served concurrently, once every request has been answered there is at most
\* one row for each pair.
C20_OneRowPerPairConcurrent ==
    (\A w \in Workers : sessions[w].pc = "idle") =>
        \A i \in 1..Len(tracks) : \A j \in 1..Len(tracks) :
            (tracks[i].user_id = tracks[j].user_id
               /\ tracks[i].protection_package_id = tracks[j].protection_package_id)
                => i = j

\* C21 as stated: every POST /track-protection-plan request whose UserId
\* names no user is answered 404 and changes no tracking row.
C21_UnknownUserIs404 ==
    [][(tracks' = tracks /\ response'.status = 404)
       \/ \A tracking_data \in TrackRequests :
              tracking_data.UserId \in users \/ ~track_protection_plan(tracking_data)]_vars

\* C21 amended: a request whose UserId names no user changes no tracking
\* row; it is answered 404 when its body passes the schema, and 422 when a
\* counter is below 0, since the body is validated before the handler runs.
C21_UnknownUserChangesNothing ==
    [][(tracks' = tracks /\ response'.status = 404)
       \/ \A tracking_data \in TrackRequests :
              \/ tracking_data.UserId \in users
              \/ ~track_protection_plan(tracking_data)
              \/ (HasNegative(tracking_data) /\ tracks' = tracks
                    /\ response'.status = 422)]_vars

\* a request for an unknown user refused with 404 while rows are stored
C21_Witness ==
    /\ response.op = "track"
    /\ response.status = 404
    /\ response.user_id \notin users
    /\ tracks # <<>>

\* the question-generation tasks
QuestionTasks == {t \in DOMAIN tasks : tasks[t].kind = "questions"}

\* the latest execution of a task failed and has ended
RunFailed(t) == tasks[t].state \in {"RETRY", "FAILURE"}

\* the stored questions that one execution of a task built
QuestionsOfRun(t, n) == {q \in questions : q.run = [task |-> t, n |-> n]}

\* C22: when a run of generate_questions_for_preference has failed after the
\* preference was found, the stored status of the preference is "failed";
\* it is not left as "generating".
C22_FailedRunLeavesFailed ==
    \A t \in QuestionTasks :
        RunFailed(t) => preferences[tasks[t].arg].status = "failed"

\* C23: a failed run persists none of the questions it built: every stored
\* question was built by the execution with which its task succeeded.
C23_FailedRunPersistsNothing ==
    \A q \in questions :
        /\ tasks[q.run.task].state = "SUCCESS"
        /\ tasks[q.run.task].executions = q.run.n

\* the answer to GET /preferences/{id} shows the preference of task t
Observed(t) ==
    /\ response.op = "get_preference"
    /\ response.status = 200
    /\ response.body.id = tasks[t].arg

\* C24: the questions of a successful run and the status "completed" become
\* visible together: no answer of GET /preferences/{id} shows "completed"
\* without the questions of that run, and none shows questions of that run
\* together with the status "generating".
C24_CompletedWithQuestions ==
    \A t \in QuestionTasks :
        (Observed(t) /\ tasks[t].state = "SUCCESS") =>
            /\ response.body.status = "completed" =>
                  QuestionsOfRun(t, tasks[t].executions) \subseteq response.body.questions
            /\ response.body.status = "generating" =>
                  QuestionsOfRun(t, tasks[t].executions) \cap response.body.questions = {}

\* C26: the result of a successful generate_questions_task lists in
\* question_ids the ids of the questions its run created: one entry per
\* stored question of the run, each the id of that question.
C26_ResultListsStoredIds ==
    \A t \in QuestionTasks :
        (tasks[t].state = "SUCCESS" /\ tasks[t].arg \in 1..Len(preferences)) =>
            LET ids == tasks[t].result.question_ids
                rows == QuestionsOfRun(t, tasks[t].executions)
            IN  /\ Len(ids) = Cardinality(rows)
                /\ {ids[i] : i \in 1..Len(ids)} = {q.id : q \in rows}

\* C27: once a question-generation task and all its retries have ended, the
\* status of its preference is "completed" or "failed", and it is "failed"
\* if every execution failed.
C27_EndedTaskSettlesStatus ==
    \A t \in QuestionTasks :
        /\ tasks[t].state \in {"SUCCESS", "FAILURE"} =>
              preferences[tasks[t].arg].status \in {"completed", "failed"}
        /\ tasks[t].state = "FAILURE" => preferences[tasks[t].arg].status = "failed"

\* C25: a task of either kind whose executions keep raising is retried at
\* most 3 times: it is executed at most 4 times, it is in FAILURE only after
\* its 4th execution, and once in FAILURE it is not executed or changed again.
C25_RetriedAtMostThreeTimes ==
    /\ [](\A t \in DOMAIN tasks :
            /\ tasks[t].retries <= 3
            /\ tasks[t].executions <= 4
            /\ tasks[t].state = "RETRY" => tasks[t].executions = tasks[t].retries
            /\ tasks[t].state = "FAILURE" => tasks[t].executions = 4)
    /\ [][\A t \in DOMAIN tasks :
             tasks[t].state = "FAILURE" => tasks'[t] = tasks[t]]_vars

\* a task of each kind has ended in FAILURE after its executions kept raising
C25_Witness ==
    /\ \E t \in DOMAIN tasks :
          tasks[t].kind = "questions" /\ tasks[t].state = "FAILURE"
    /\ \E t \in DOMAIN tasks :
          tasks[t].kind = "recommendation" /\ tasks[t].state = "FAILURE"

\* the requests whose importance is below 1 or above 5
OutOfRangeRequests ==
    { r \in AnswerRequests :
        r.importance # NoInt /\ (r.importance[1] < 1 \/ r.importance[1] > 5) }

\* C28: a PUT /questions/{question_id}/answer request for a stored question
\* with importance below 1 or above 5 is answered 400 and leaves the table
\* of questions as it was, whatever answer, answer_score and frustrated it
\* carries.
C28_BadImportanceChangesNothing ==
    [][(questions' = questions /\ response'.status = 400)
       \/ \A r \in OutOfRangeRequests :
              \/ ~UpdateQuestionAnswerOf(r)
              \/ \A q \in questions : q.id # r.question_id]_vars

\* a request was refused with 400 while a question is stored
C28_Witness ==
    /\ response.op = "update_question_answer"
    /\ response.status = 400
    /\ questions # {}

\* C29: a DELETE /questions/{question_id} that deletes a question of a
\* preference leaves no preference row with that preference's id.
C29_DeleteQuestionDeletesPreference ==
    [][\A q \in questions :
          (response'.op = "delete_question" /\ response'.status = 204
             /\ q \notin questions' /\ q.preference_id # NoId)
              => q.preference_id \notin DOMAIN preferences']_vars

====
